---- MODULE Spec2Model ----
(***************************************************************************)
(* Model of src/upstream_manager.py: UpstreamServer (one child process     *)
(* spoken to over line-delimited JSON-RPC on its stdin/stdout) and         *)
(* UpstreamManager (the server registry and the tool-name routing table).  *)
(*                                                                         *)
(* Every blocking I/O call of the code is one step of the model: a write   *)
(* to the child's stdin (with the guard and the id assignment that precede *)
(* it) and a readline from the child's stdout (with the parsing and the    *)
(* bookkeeping that follow it).  The child processes are the environment:  *)
(* they answer, close their output or exit on their own.                   *)
(***************************************************************************)
EXTENDS Integers, Sequences, FiniteSets, TLC

\* ------------------------------------------------------------------ bounds

\* Longest tool catalog a child advertises.
MaxTools == 2
\* Number of tools/call requests the callers issue in one run (caps the
\* request id counters: a channel hands out ids up to 2 + MaxCalls).
MaxCalls == 2
\* Number of children that close their output or exit in one run.
MaxFaults == 1

\* ------------------------------------------------------------- input sets

ServerIds == {"s1", "s2", "s3"}
\* The caller of the single-threaded reference behaviour, and the threads
\* that call route_tool_call concurrently.
Callers == {"c1"}
Threads == {"c1", "c2"}

\* Python's None, as a value comparable with the strings of the model.
None == "<None>"

\* Python truthiness of a string-or-None value: None and "" are falsy.
Falsy(v) == v = None \/ v = ""

\* A ToolDescriptor: a JSON object that may or may not have a "name" key.
Tool(hn, n) == [has_name |-> hn, name |-> n]
\* with a usable name, ...
BasicTools == {Tool(TRUE, "search"), Tool(TRUE, "echo")}
\* ... with an empty name or with none.
AllTools == BasicTools \cup {Tool(TRUE, ""), Tool(FALSE, "")}

\* Names a caller may ask route_tool_call for ("nonexistent" is advertised
\* by no child).
CallNames == {"search", "echo", "", "nonexistent"}

SeqsUpTo(S, n) == UNION {[1..k -> S] : k \in 0..n}

BasicCatalogs == SeqsUpTo(BasicTools, MaxTools)
AllCatalogs == SeqsUpTo(AllTools, MaxTools)

\* The configuration file: an ordered list of entries with unique ids
\* (description and command do not influence the behaviour modelled).
Configs == {<<"s1", "s2", "s3">>}

\* ------------------------------------------------- response lines (stdout)

\* An optional JSON field holding a tool list.
NoCat == [present |-> FALSE, items |-> <<>>]
Cat(c) == [present |-> TRUE, items |-> c]

\* One line read from the child's stdout.  json = FALSE is a line json.loads
\* rejects; otherwise the line is a JSON object: error says whether it has an
\* "error" key, result is the shape of its "result" key ("absent", "null" or
\* "object"), rtools is result.tools and tools the top-level "tools" key.
Line(j, e, r, rt, t) ==
    [json |-> j, error |-> e, result |-> r, rtools |-> rt, tools |-> t]

Malformed == Line(FALSE, FALSE, "absent", NoCat, NoCat)
ErrorLine == Line(TRUE, TRUE, "absent", NoCat, NoCat)
ErrorWithResult == Line(TRUE, TRUE, "object", NoCat, NoCat)
ResultLine == Line(TRUE, FALSE, "object", NoCat, NoCat)
NullResult == Line(TRUE, FALSE, "null", NoCat, NoCat)
BareLine == Line(TRUE, FALSE, "absent", NoCat, NoCat)

\* What a child may answer to initialize and to tools/call.
PlainLines == {Malformed, ErrorLine, ErrorWithResult, ResultLine, NullResult, BareLine}

\* What a child may answer to tools/list: the nested shape of the protocol,
\* {"result": {"tools": [...]}}, over the catalogs C ...
NestedLines(C) == {Line(TRUE, FALSE, "object", Cat(c), NoCat) : c \in C}
\* ... or any combination of a result key and a top-level tools key.
ShapedLines(C) ==
    {Line(TRUE, FALSE, "absent", NoCat, t) : t \in {NoCat} \cup {Cat(c) : c \in C}}
    \cup {Line(TRUE, FALSE, "null", NoCat, t) : t \in {NoCat} \cup {Cat(c) : c \in C}}
    \cup {Line(TRUE, FALSE, "object", rt, t) :
            rt \in {NoCat} \cup {Cat(c) : c \in C},
            t \in {NoCat} \cup {Cat(c) : c \in C}}

BasicListLines == {Malformed, ErrorLine, NullResult, BareLine, ResultLine}
                    \cup NestedLines(BasicCatalogs)
AllListLines == {Malformed, ErrorLine} \cup ShapedLines(AllCatalogs)

\* ------------------------------------------------------- outcomes, records

\* The outcome of the operation that finished last: what it returned or the
\* exception it raised (Python class and the condition it stands for).
Outcome(op, k, exc, cond) == [op |-> op, kind |-> k, exc |-> exc, cond |-> cond]
NoOutcome == Outcome("none", "none", "", "")
Return(op, what) == Outcome(op, "return", "", what)
Raise(op, exc, cond) == Outcome(op, "raise", exc, cond)

\* A log_error diagnostic.
Collision(n, owner, sid) ==
    [kind |-> "collision", name |-> n, owner |-> owner, server |-> sid]
NoToolsDiag(sid) ==
    [kind |-> "no_tools", name |-> None, owner |-> None, server |-> sid]

\* A request line written to a child's stdin: its id, its method and, for
\* tools/call, params.name.
Request(i, m, n) == [id |-> i, method |-> m, name |-> n]
\* The same line as the history keeps it.
Sent(i, m) == [id |-> i, method |-> m]

\* ------------------------------------------------------- pure computations

\* A parse that lets a result take precedence over an error object.
ParseResponse_ResultFirst(line) ==
    IF ~line.json THEN [ok |-> FALSE, exc |-> "JSONDecodeError", cond |-> "malformed"]
    ELSE IF line.error /\ line.result = "absent"
    THEN [ok |-> FALSE, exc |-> "RuntimeError", cond |-> "upstream_error"]
    ELSE [ok |-> TRUE, exc |-> "", cond |-> ""]

\* _send_request, after the read: json.loads, then the "error" check.
ParseResponse(line) ==
    IF ~line.json THEN [ok |-> FALSE, exc |-> "JSONDecodeError", cond |-> "malformed"]
    ELSE IF line.error THEN [ok |-> FALSE, exc |-> "RuntimeError", cond |-> "upstream_error"]
    ELSE [ok |-> TRUE, exc |-> "", cond |-> ""]

\* Python truthiness of an optional list: None and [] are falsy.
FalsyList(oc) == ~oc.present \/ oc.items = <<>>

\* ExtractTools reading only the nested field:
\* tools = resp.get("result", {}).get("tools")
ExtractTools_NestedOnly(resp) ==
    IF resp.result = "null"
    THEN [crash |-> TRUE, tools |-> <<>>, diag |-> FALSE]
    ELSE LET nested == IF resp.result = "object" THEN resp.rtools ELSE NoCat
         IN  [crash |-> FALSE, tools |-> nested.items, diag |-> ~nested.present]

\* tools = resp.get("result", {}).get("tools") or resp.get("tools");
\* if tools is None: log_error(...); tools = []
\* crash: result is null, so None.get raises AttributeError.
ExtractTools(resp) ==
    IF resp.result = "null"
    THEN [crash |-> TRUE, tools |-> <<>>, diag |-> FALSE]
    ELSE LET nested == IF resp.result = "object" THEN resp.rtools ELSE NoCat
             picked == IF FalsyList(nested) THEN resp.tools ELSE nested
         IN  [crash |-> FALSE, tools |-> picked.items, diag |-> ~picked.present]

\* tool.get("name")
ToolName(tool) == IF tool.has_name THEN tool.name ELSE None

\* MergeTools with the bug "the last registration wins": a colliding name is
\* reported and then given to the later server.
RECURSIVE MergeTools_LastWins(_, _, _, _, _)
MergeTools_LastWins(cat, i, sid, table, dg) ==
    IF i > Len(cat) THEN [table |-> table, diag |-> dg]
    ELSE LET name == ToolName(cat[i])
         IN  IF Falsy(name) THEN MergeTools_LastWins(cat, i + 1, sid, table, dg)
             ELSE IF name \in DOMAIN table
             THEN MergeTools_LastWins(cat, i + 1, sid, (name :> sid) @@ table,
                                      Append(dg, Collision(name, table[name], sid)))
             ELSE MergeTools_LastWins(cat, i + 1, sid, table @@ (name :> sid), dg)

\* MergeTools without the "if not name: continue" test: tools with an empty
\* or a missing name get an entry too.
RECURSIVE MergeTools_NoSkip(_, _, _, _, _)
MergeTools_NoSkip(cat, i, sid, table, dg) ==
    IF i > Len(cat) THEN [table |-> table, diag |-> dg]
    ELSE LET name == ToolName(cat[i])
         IN  IF name \in DOMAIN table
             THEN MergeTools_NoSkip(cat, i + 1, sid, table,
                                    Append(dg, Collision(name, table[name], sid)))
             ELSE MergeTools_NoSkip(cat, i + 1, sid, table @@ (name :> sid), dg)

\* MergeTools without the log_error call of the collision branch.
RECURSIVE MergeTools_Silent(_, _, _, _, _)
MergeTools_Silent(cat, i, sid, table, dg) ==
    IF i > Len(cat) THEN [table |-> table, diag |-> dg]
    ELSE LET name == ToolName(cat[i])
         IN  IF Falsy(name) \/ name \in DOMAIN table
             THEN MergeTools_Silent(cat, i + 1, sid, table, dg)
             ELSE MergeTools_Silent(cat, i + 1, sid, table @@ (name :> sid), dg)

\* The merge loop of load_and_start over server.tools[i..]: returns the
\* routing table and the diagnostics after it.
RECURSIVE MergeTools(_, _, _, _, _)
MergeTools(cat, i, sid, table, dg) ==
    IF i > Len(cat) THEN [table |-> table, diag |-> dg]
    ELSE LET name == ToolName(cat[i])
         IN  IF Falsy(name) THEN MergeTools(cat, i + 1, sid, table, dg)
             ELSE IF name \in DOMAIN table
             THEN MergeTools(cat, i + 1, sid, table,
                             Append(dg, Collision(name, table[name], sid)))
             ELSE MergeTools(cat, i + 1, sid, table @@ (name :> sid), dg)

\* A registration that is forgotten: the key list stays as it was.
DictPut_Forget(keys, k) == keys

\* self.servers[server_id] = server, on a dict kept as its ordered key list.
DictPut(keys, k) ==
    IF \E i \in 1..Len(keys) : keys[i] = k THEN keys ELSE Append(keys, k)

\* -------------------------------------------------------------------- state

VARIABLES
    config,          \* the parsed upstream_servers list of config.yaml
    li,              \* load_and_start: index of the entry being processed
    lpc,             \* load_and_start: where it stands
    objs,            \* ids of the UpstreamServer objects constructed so far
    proc,            \* UpstreamServer.proc is not None, per server
    tools,           \* UpstreamServer.tools, per server
    next_id,         \* UpstreamServer._next_id, per server
    servers,         \* UpstreamManager.servers: its keys in insertion order
    tool_to_server,  \* UpstreamManager.tool_to_server
    diag,            \* the log_error messages written so far
    child,           \* each child process: unborn, running, closed, exited
    stdin,           \* request lines written to a child and not yet consumed
    stdout,          \* response lines a child wrote that were not yet read
    wire,            \* history: every request line written, per server
    reads,           \* history: number of readline calls that returned
    closed_seen,     \* history: servers a request of which failed on a closed stdout
    answered,        \* history: the request each line buffered in stdout answers
    listResp,        \* history: the tools/list response each server accepted
    cpc,             \* each caller of route_tool_call: idle or call_recv
    creq,            \* each caller's request in flight
    local,           \* each caller's locals inside _send_request
    ret              \* outcome of the operation that finished last

mgr == <<servers, tool_to_server>>
srv == <<objs, proc, tools, next_id>>
io == <<child, stdin, stdout, wire, reads, closed_seen, answered>>
ldr == <<config, li, lpc>>
clr == <<cpc, creq, local>>
vars == <<config, li, lpc, objs, proc, tools, next_id, servers, tool_to_server,
          diag, child, stdin, stdout, wire, reads, closed_seen, answered, listResp,
          cpc, creq, local, ret>>

NoRequest == Request(0, "", None)
NoCall == [name |-> None, server |-> None]
\* req_id, and the value of self._next_id loaded by "self._next_id += 1".
NoLocal == [req_id |-> 0, loaded |-> 0]

\* UpstreamServer.__init__ and UpstreamManager.__init__ for every id; no
\* process exists before load_and_start.
InitWith(cfgs) ==
    /\ config \in cfgs
    /\ li = 1
    /\ lpc = "entry"
    /\ objs = {}
    /\ proc = [s \in ServerIds |-> FALSE]
    /\ tools = [s \in ServerIds |-> <<>>]
    /\ next_id = [s \in ServerIds |-> 1]
    /\ servers = <<>>
    /\ tool_to_server = <<>>
    /\ diag = <<>>
    /\ child = [s \in ServerIds |-> "unborn"]
    /\ stdin = [s \in ServerIds |-> <<>>]
    /\ stdout = [s \in ServerIds |-> <<>>]
    /\ wire = [s \in ServerIds |-> <<>>]
    /\ reads = [s \in ServerIds |-> 0]
    /\ closed_seen = {}
    /\ answered = [s \in ServerIds |-> <<>>]
    /\ listResp = [s \in ServerIds |-> Malformed]
    /\ cpc = [c \in Threads |-> "idle"]
    /\ creq = [c \in Threads |-> NoCall]
    /\ local = [c \in Threads |-> NoLocal]
    /\ ret = NoOutcome

Init == InitWith(Configs)

\* ------------------------------------------------------ the child processes

\* The lines a child may answer to a request of the given method; L is the
\* set of its possible tools/list answers.
Answers(method, L) == IF method = "tools/list" THEN L ELSE PlainLines

\* A running child consumes the oldest request on its stdin and writes one
\* response line.
ChildAnswers(s, L) ==
    /\ child[s] = "running"
    /\ stdin[s] # <<>>
    /\ \E line \in Answers(Head(stdin[s]).method, L) :
          stdout' = [stdout EXCEPT ![s] = Append(@, line)]
    /\ answered' = [answered EXCEPT ![s] = Append(@, Head(stdin[s]))]
    /\ stdin' = [stdin EXCEPT ![s] = Tail(@)]
    /\ UNCHANGED <<ldr, srv, mgr, diag, child, wire, reads, closed_seen, listResp, clr, ret>>

\* The children that closed their output or exited.
Faulty == {s \in ServerIds : child[s] \in {"closed", "exited"}}

\* A running child closes its stdout and keeps running.
ChildClosesStdout(s) ==
    /\ child[s] = "running"
    /\ Cardinality(Faulty) < MaxFaults
    /\ child' = [child EXCEPT ![s] = "closed"]
    /\ UNCHANGED <<ldr, srv, mgr, diag, stdin, stdout, wire, reads, closed_seen, answered,
                   listResp, clr, ret>>

\* A child exits; what it had not read from its stdin is lost.
ChildExits(s) ==
    /\ child[s] \in {"running", "closed"}
    /\ s \in Faulty \/ Cardinality(Faulty) < MaxFaults
    /\ child' = [child EXCEPT ![s] = "exited"]
    /\ stdin' = [stdin EXCEPT ![s] = <<>>]
    /\ UNCHANGED <<ldr, srv, mgr, diag, stdout, wire, reads, closed_seen, answered, listResp,
                   clr, ret>>

\* ------------------------------------------- UpstreamServer._send_request

\* The guard: if not self.proc or not self.proc.stdin or not self.proc.stdout
\* (the pipe objects of a Popen are never falsy).
NotStarted(s) == ~proc[s]

\* flush() on the stdin of a child that exited raises BrokenPipeError.
PipeBroken(s) == child[s] = "exited"

\* WriteRequest without "self._next_id += 1".
WriteRequest_NoIncrement(s, method, name) ==
    /\ next_id' = next_id
    /\ wire' = [wire EXCEPT ![s] = Append(@, Sent(next_id[s], method))]
    /\ stdin' = IF PipeBroken(s) THEN stdin
                ELSE [stdin EXCEPT ![s] = Append(@, Request(next_id[s], method, name))]

\* req_id = self._next_id; self._next_id += 1; ...; stdin.write(); flush()
WriteRequest(s, method, name) ==
    /\ next_id' = [next_id EXCEPT ![s] = @ + 1]
    /\ wire' = [wire EXCEPT ![s] = Append(@, Sent(next_id[s], method))]
    /\ stdin' = IF PipeBroken(s) THEN stdin
                ELSE [stdin EXCEPT ![s] = Append(@, Request(next_id[s], method, name))]

\* stdout.readline() returns once a line is buffered or the write end of the
\* pipe is closed; it blocks otherwise.
CanRead(s) == stdout[s] # <<>> \/ child[s] \in {"closed", "exited"}
AtEof(s) == stdout[s] = <<>>

\* line = self.proc.stdout.readline()
ReadLine(s) ==
    /\ CanRead(s)
    /\ stdout' = [stdout EXCEPT ![s] = IF AtEof(s) THEN @ ELSE Tail(@)]
    /\ reads' = [reads EXCEPT ![s] = @ + 1]
    /\ closed_seen' = IF AtEof(s) THEN closed_seen \cup {s} ELSE closed_seen
    /\ answered' = [answered EXCEPT ![s] = IF AtEof(s) THEN @ ELSE Tail(@)]

\* The line readline returns: the oldest buffered line, or '' at end of
\* stream ('' is no JSON text).
LineRead(s) == IF AtEof(s) THEN Malformed ELSE Head(stdout[s])

\* Received without the "if not line" check: the empty line goes to json.loads.
Received_NoEofCheck(s) == ParseResponse(LineRead(s))

\* What _send_request does with the line read: raise or return the response.
Received(s) ==
    IF AtEof(s)
    THEN [ok |-> FALSE, exc |-> "RuntimeError", cond |-> "upstream_closed"]
    ELSE ParseResponse(LineRead(s))

\* ------------------------------------------ UpstreamManager.load_and_start

Entry == config[li]

\* Abort as a try/except around server.start() would behave: the failure is
\* swallowed and the loop goes on with the next entry.
Abort_SkipEntry(exc, cond) ==
    /\ lpc' = IF li < Len(config) THEN "entry" ELSE "done"
    /\ li' = li + 1
    /\ ret' = ret
    /\ UNCHANGED config

\* An exception leaves load_and_start: the remaining entries are skipped.
Abort(exc, cond) ==
    /\ lpc' = "aborted"
    /\ ret' = Raise("load", exc, cond)
    /\ UNCHANGED <<config, li>>

\* server = UpstreamServer(server_id, desc, cmd); server.start() up to the
\* Popen call, which may raise OSError.
load_construct_popen ==
    /\ lpc = "entry"
    /\ objs' = objs \cup {Entry}
    /\ tools' = [tools EXCEPT ![Entry] = <<>>]
    /\ next_id' = [next_id EXCEPT ![Entry] = 1]
    /\ \/ /\ proc' = [proc EXCEPT ![Entry] = TRUE]
          /\ child' = [child EXCEPT ![Entry] = "running"]
          /\ lpc' = "init_send"
          /\ UNCHANGED <<config, li, ret>>
       \/ /\ proc' = [proc EXCEPT ![Entry] = FALSE]
          /\ Abort("OSError", "launch_failed")
          /\ UNCHANGED child
    /\ UNCHANGED <<mgr, diag, stdin, stdout, wire, reads, closed_seen, answered, listResp,
                   clr>>

\* The write half of a handshake request: _send_request(method, ...) up to
\* the flush.
load_send(at, method, next) ==
    /\ lpc = at
    /\ IF NotStarted(Entry)
       THEN /\ Abort("RuntimeError", "not_started")
            /\ UNCHANGED <<next_id, wire, stdin>>
       ELSE /\ WriteRequest(Entry, method, None)
            /\ IF PipeBroken(Entry)
               THEN Abort("BrokenPipeError", "broken_pipe")
               ELSE lpc' = next /\ UNCHANGED <<config, li, ret>>
    /\ UNCHANGED <<objs, proc, tools, mgr, diag, child, stdout, reads, closed_seen,
                   answered, listResp, clr>>

\* self._send_request("initialize", init_params): the write
load_init_send == load_send("init_send", "initialize", "init_recv")

\* load_init_recv with the failure of initialize ignored.
load_init_recv_Swallow ==
    /\ lpc = "init_recv"
    /\ ReadLine(Entry)
    /\ lpc' = "list_send"
    /\ UNCHANGED <<config, li, ret>>
    /\ UNCHANGED <<srv, mgr, diag, child, stdin, wire, listResp, clr>>

\* self._send_request("initialize", init_params): the read and the parse
load_init_recv ==
    /\ lpc = "init_recv"
    /\ ReadLine(Entry)
    /\ LET r == Received(Entry)
       IN  IF r.ok THEN lpc' = "list_send" /\ UNCHANGED <<config, li, ret>>
           ELSE Abort(r.exc, r.cond)
    /\ UNCHANGED <<srv, mgr, diag, child, stdin, wire, listResp, clr>>

\* self._send_request("tools/list", {"cursor": None}): the write
load_list_send == load_send("list_send", "tools/list", "list_recv")

\* The read of the tools/list response, the extraction of the catalog, and
\* the rest of the loop body of load_and_start: self.servers[server_id] =
\* server and the merge of server.tools into tool_to_server.
load_list_recv ==
    /\ lpc = "list_recv"
    /\ ReadLine(Entry)
    /\ LET r == Received(Entry)
           x == ExtractTools(LineRead(Entry))
           d1 == IF x.diag THEN Append(diag, NoToolsDiag(Entry)) ELSE diag
           m == MergeTools(x.tools, 1, Entry, tool_to_server, d1)
       IN  IF ~r.ok
           THEN /\ Abort(r.exc, r.cond)
                /\ UNCHANGED <<tools, mgr, diag, listResp>>
           ELSE IF x.crash
           THEN /\ Abort("AttributeError", "result_not_object")
                /\ UNCHANGED <<tools, mgr, diag, listResp>>
           ELSE /\ tools' = [tools EXCEPT ![Entry] = x.tools]
                /\ listResp' = [listResp EXCEPT ![Entry] = LineRead(Entry)]
                /\ servers' = DictPut(servers, Entry)
                /\ tool_to_server' = m.table
                /\ diag' = m.diag
                /\ li' = li + 1
                /\ lpc' = IF li < Len(config) THEN "entry" ELSE "done"
                /\ ret' = IF li < Len(config) THEN ret
                          ELSE Return("load", "loaded")
                /\ UNCHANGED config
    /\ UNCHANGED <<objs, proc, next_id, child, stdin, wire, clr>>

\* ------------------------------------------ UpstreamManager.route_tool_call

\* load_and_start has returned or raised, and no other call is in progress
\* (the reference behaviour is single-threaded).
MayCall == lpc \in {"done", "aborted"} /\ \A c \in Threads : cpc[c] = "idle"

\* The number of tools/call requests written so far.
CallsIssued ==
    LET n(s) == Cardinality({i \in 1..Len(wire[s]) : wire[s][i].method = "tools/call"})
    IN  n("s1") + n("s2") + n("s3")

\* Lookup with a fallback to the first server for names it does not know.
Lookup_DefaultServer(name) ==
    IF name \in DOMAIN tool_to_server THEN tool_to_server[name]
    ELSE IF servers # <<>> THEN servers[1] ELSE None

\* A lookup that drops the names of the servers whose child is gone.
Lookup_LiveOnly(name) ==
    IF name \in DOMAIN tool_to_server /\ tool_to_server[name] \notin Faulty
    THEN tool_to_server[name] ELSE None

\* server_id = self.tool_to_server.get(name)
Lookup(name) == IF name \in DOMAIN tool_to_server THEN tool_to_server[name] ELSE None

\* route_tool_call(name, arguments) up to the flush of the tools/call request
\* in _send_request.
route_tool_call(c, name) ==
    /\ MayCall
    /\ LET server_id == Lookup(name)
       IN  IF Falsy(server_id)
           THEN /\ ret' = Raise("route", "ValueError", "unknown_tool")
                /\ UNCHANGED <<next_id, wire, stdin, clr>>
           ELSE IF NotStarted(server_id)
           THEN /\ ret' = Raise("route", "RuntimeError", "not_started")
                /\ UNCHANGED <<next_id, wire, stdin, clr>>
           ELSE /\ CallsIssued < MaxCalls
                /\ WriteRequest(server_id, "tools/call", name)
                /\ IF PipeBroken(server_id)
                   THEN /\ ret' = Raise("route", "BrokenPipeError", "broken_pipe")
                        /\ UNCHANGED clr
                   ELSE /\ cpc' = [cpc EXCEPT ![c] = "call_recv"]
                        /\ creq' = [creq EXCEPT ![c] =
                              [name |-> name, server |-> server_id]]
                        /\ UNCHANGED <<ret, local>>
    /\ UNCHANGED <<ldr, objs, proc, tools, mgr, diag, child, stdout, reads, closed_seen,
                   answered, listResp>>

\* The rest of _send_request and of call_tool: the read, the parse, and
\* return resp["result"] if "result" in resp else resp.
call_recv(c) ==
    /\ cpc[c] = "call_recv"
    /\ LET s == creq[c].server
           r == Received(s)
       IN  /\ ReadLine(s)
           /\ ret' = IF r.ok
                     THEN Return("route", IF LineRead(s).result # "absent"
                                          THEN "result" ELSE "response")
                     ELSE Raise("route", r.exc, r.cond)
    /\ cpc' = [cpc EXCEPT ![c] = "idle"]
    /\ creq' = [creq EXCEPT ![c] = NoCall]
    /\ UNCHANGED <<ldr, srv, mgr, diag, child, stdin, wire, listResp, local>>

\* ------------------------------------- route_tool_call from several threads
\*
\* _send_request takes no lock, so the steps of two threads interleave at
\* every point where the interpreter may switch threads: between the read of
\* self._next_id and its increment, inside the increment (a load and a store),
\* before the write, and between the flush and the readline.

BeforeWrite == {"incr_load", "incr_store", "write"}

\* The calls written so far plus the calls that have passed the guard.
CallsBegun == CallsIssued + Cardinality({c \in Threads : cpc[c] \in BeforeWrite})

\* route_tool_call and call_tool up to req_id = self._next_id.
thread_route_tool_call(c, name) ==
    /\ lpc \in {"done", "aborted"}
    /\ cpc[c] = "idle"
    /\ LET server_id == Lookup(name)
       IN  IF Falsy(server_id)
           THEN /\ ret' = Raise("route", "ValueError", "unknown_tool")
                /\ UNCHANGED clr
           ELSE IF NotStarted(server_id)
           THEN /\ ret' = Raise("route", "RuntimeError", "not_started")
                /\ UNCHANGED clr
           ELSE /\ CallsBegun < MaxCalls
                /\ local' = [local EXCEPT ![c] =
                       [req_id |-> next_id[server_id], loaded |-> 0]]
                /\ creq' = [creq EXCEPT ![c] = [name |-> name, server |-> server_id]]
                /\ cpc' = [cpc EXCEPT ![c] = "incr_load"]
                /\ UNCHANGED ret
    /\ UNCHANGED <<ldr, srv, mgr, diag, io, listResp>>

\* self._next_id += 1, the load.
thread_incr_load(c) ==
    /\ cpc[c] = "incr_load"
    /\ local' = [local EXCEPT ![c].loaded = next_id[creq[c].server]]
    /\ cpc' = [cpc EXCEPT ![c] = "incr_store"]
    /\ UNCHANGED <<ldr, srv, mgr, diag, io, listResp, creq, ret>>

\* self._next_id += 1, the store.
thread_incr_store(c) ==
    /\ cpc[c] = "incr_store"
    /\ next_id' = [next_id EXCEPT ![creq[c].server] = local[c].loaded + 1]
    /\ cpc' = [cpc EXCEPT ![c] = "write"]
    /\ UNCHANGED <<ldr, objs, proc, tools, mgr, diag, io, listResp, creq, local, ret>>

\* The write and the flush of the request line that carries req_id.
thread_write(c) ==
    /\ cpc[c] = "write"
    /\ LET s == creq[c].server
           id == local[c].req_id
       IN  /\ wire' = [wire EXCEPT ![s] = Append(@, Sent(id, "tools/call"))]
           /\ IF PipeBroken(s)
              THEN /\ ret' = Raise("route", "BrokenPipeError", "broken_pipe")
                   /\ cpc' = [cpc EXCEPT ![c] = "idle"]
                   /\ creq' = [creq EXCEPT ![c] = NoCall]
                   /\ UNCHANGED stdin
              ELSE /\ stdin' = [stdin EXCEPT ![s] =
                         Append(@, Request(id, "tools/call", creq[c].name))]
                   /\ cpc' = [cpc EXCEPT ![c] = "call_recv"]
                   /\ UNCHANGED <<creq, ret>>
    /\ UNCHANGED <<ldr, srv, mgr, diag, child, stdout, reads, closed_seen, answered,
                   listResp, local>>

\* --------------------------------------------------------------- queries

\* get_server_tools(server_id)
get_server_tools(server_id) ==
    IF \E i \in 1..Len(servers) : servers[i] = server_id
    THEN [ok |-> TRUE, exc |-> "", cond |-> "", tools |-> tools[server_id]]
    ELSE [ok |-> FALSE, exc |-> "ValueError", cond |-> "unknown_server", tools |-> <<>>]

\* A status that looks at the handle only and never polls the child.
ServerStatus_HandleOnly(s) == IF proc[s] THEN "connected" ELSE "down"

\* "connected" if s.proc and s.proc.poll() is None else "down"
ServerStatus(s) ==
    IF proc[s] /\ child[s] \in {"running", "closed"} THEN "connected" ELSE "down"

\* get_servers_status(), one entry per registered server in the order of
\* self.servers.
get_servers_status ==
    [i \in 1..Len(servers) |->
        [id |-> servers[i],
         tools_count |-> Len(tools[servers[i]]),
         status |-> ServerStatus(servers[i])]]

\* get_all_tools(): tools.extend(s.tools) over the first k servers.
RECURSIVE ExtendAll(_)
ExtendAll(k) == IF k = 0 THEN <<>> ELSE ExtendAll(k - 1) \o tools[servers[k]]

get_all_tools == ExtendAll(Len(servers))

\* The queries as operations of the manager; what they return is the value of
\* the operators above in the state they are called in.
query_all_tools ==
    /\ MayCall
    /\ ret' = Return("get_all_tools", "list")
    /\ UNCHANGED <<ldr, srv, mgr, diag, io, listResp, clr>>

query_servers_status ==
    /\ MayCall
    /\ ret' = Return("get_servers_status", "list")
    /\ UNCHANGED <<ldr, srv, mgr, diag, io, listResp, clr>>

query_server_tools(server_id) ==
    /\ MayCall
    /\ LET r == get_server_tools(server_id)
       IN  ret' = IF r.ok THEN Return("get_server_tools", "list")
                  ELSE Raise("get_server_tools", r.exc, r.cond)
    /\ UNCHANGED <<ldr, srv, mgr, diag, io, listResp, clr>>

\* ---------------------------------------------------------- specifications

Load ==
    \/ load_construct_popen
    \/ load_init_send
    \/ load_init_recv
    \/ load_list_send
    \/ load_list_recv

Calls ==
    \/ \E c \in Callers, name \in CallNames : route_tool_call(c, name)
    \/ \E c \in Callers : call_recv(c)

Children(L) ==
    \/ \E s \in ServerIds : ChildAnswers(s, L)
    \/ \E s \in ServerIds : ChildClosesStdout(s)
    \/ \E s \in ServerIds : ChildExits(s)

\* Three servers whose children advertise their tools in the nested shape.
Next == Load \/ Calls \/ Children(BasicListLines)

Spec == Init /\ [][Next]_vars

\* One server whose child answers tools/list in any shape, over catalogs that
\* also hold tools with an empty or a missing name.
InitShapes == InitWith({<<"s1">>})

NextShapes == Load \/ Calls \/ Children(AllListLines)

SpecShapes == InitShapes /\ [][NextShapes]_vars

\* Two servers and two threads that call route_tool_call with no
\* synchronisation between them.
InitThreads == InitWith({<<"s1", "s2">>})

ThreadCalls ==
    \/ \E c \in Threads, name \in CallNames : thread_route_tool_call(c, name)
    \/ \E c \in Threads : thread_incr_load(c)
    \/ \E c \in Threads : thread_incr_store(c)
    \/ \E c \in Threads : thread_write(c)
    \/ \E c \in Threads : call_recv(c)

NextThreads == Load \/ ThreadCalls \/ Children(BasicListLines)

SpecThreads == InitThreads /\ [][NextThreads]_vars

\* Two servers, over catalogs that also hold tools with an empty or a missing
\* name, with the queries next to the calls.
InitOps == InitWith({<<"s1", "s2">>})

Queries ==
    \/ query_all_tools
    \/ query_servers_status
    \/ \E server_id \in ServerIds : query_server_tools(server_id)

OpsListLines == {Malformed, ErrorLine, NullResult, BareLine} \cup NestedLines(AllCatalogs)

NextOps == Load \/ Calls \/ Queries \/ Children(OpsListLines)

SpecOps == InitOps /\ [][NextOps]_vars

\* ------------------------------------------------------------ observations

\* The ids registered with the manager.
Registered == {servers[i] : i \in 1..Len(servers)}

\* Server s lists a tool named n in its catalog.
Advertises(s, n) == \E k \in 1..Len(tools[s]) : ToolName(tools[s][k]) = n

\* The positions, in registration order, of the servers advertising n.
Advertisers(n) == {i \in 1..Len(servers) : Advertises(servers[i], n)}

\* The server that registered n first.
FirstAdvertiser(n) ==
    servers[CHOOSE i \in Advertisers(n) : \A j \in Advertisers(n) : i <= j]

\* A tools/call request is written to server f and nothing is written to any
\* other server.
ForwardedOnlyTo(f) ==
    /\ wire'[f] = Append(wire[f], Sent(next_id[f], "tools/call"))
    /\ \A s \in ServerIds \ {f} : wire'[s] = wire[s] /\ stdin'[s] = stdin[s]

\* ------------------------------------------------------------------ claims

\* C1: for every tool name advertised by two or more servers, route_tool_call
\* forwards the tools/call request to the server that registered the name
\* first and to no other server, the routing table maps the name to that
\* server in every state, and no step changes an existing routing table entry.
C1_FirstRegistrationWins ==
    /\ [](\A n \in CallNames :
            Advertisers(n) # {} =>
                n \in DOMAIN tool_to_server /\ tool_to_server[n] = FirstAdvertiser(n))
    /\ [][/\ \A c \in Callers, n \in CallNames :
                (Cardinality(Advertisers(n)) >= 2 /\ route_tool_call(c, n))
                    => ForwardedOnlyTo(FirstAdvertiser(n))
          /\ \A n \in DOMAIN tool_to_server :
                n \in DOMAIN tool_to_server' /\ tool_to_server'[n] = tool_to_server[n]
         ]_vars

\* A call for a name that two servers advertise is in flight, and its owner is
\* not the first server of the configuration.
C1_Witness ==
    \E c \in Callers :
        /\ cpc[c] = "call_recv"
        /\ Cardinality(Advertisers(creq[c].name)) >= 2
        /\ creq[c].server = "s2"
        /\ Len(wire["s2"]) = 3

\* C2: route_tool_call with a name that is not a key of the routing table
\* raises the unknown-tool error and does no child-process I/O: nothing is
\* written to or read from any child, and no request id counter, tool catalog
\* or routing table entry changes.
C2_UnknownToolNoIO ==
    [][\A c \in Callers, n \in CallNames :
          (n \notin DOMAIN tool_to_server /\ route_tool_call(c, n))
              => /\ ret' = Raise("route", "ValueError", "unknown_tool")
                 /\ UNCHANGED <<child, stdin, stdout, wire, reads, next_id, tools,
                                tool_to_server, cpc>>
      ]_vars

\* An unknown name was asked for while three servers and a non-empty routing
\* table were there to forward to.
C2_Witness ==
    /\ ret = Raise("route", "ValueError", "unknown_tool")
    /\ Len(servers) = 3
    /\ DOMAIN tool_to_server # {}

\* C3: on every channel the k-th request written carries id k, whatever its
\* method and whatever became of the earlier requests, and the counter is one
\* past the number of requests written.
C3_RequestIdsCount ==
    \A s \in ServerIds :
        /\ next_id[s] = Len(wire[s]) + 1
        /\ \A k \in 1..Len(wire[s]) : wire[s][k].id = k

\* A channel served initialize, tools/list and two tools/call, the first of
\* which failed on read.
C3_Witness ==
    /\ Len(wire["s1"]) = 4
    /\ wire["s1"][2].method = "tools/list"
    /\ wire["s1"][3].method = "tools/call"
    /\ "s1" \in closed_seen
    /\ reads["s1"] = 4
    /\ next_id["s1"] = 5

\* C4: a request whose read hits the end of the child's output fails with the
\* upstream-closed error, and once that has happened on a channel no request
\* on it ever returns a response.
C4_ClosedStaysClosed ==
    [][\A s \in ServerIds :
          reads'[s] # reads[s]
              => /\ AtEof(s) => /\ ret'.kind = "raise"
                                /\ ret'.exc = "RuntimeError"
                                /\ ret'.cond = "upstream_closed"
                 /\ s \in closed_seen => ret'.kind = "raise"
      ]_vars

\* Two calls went to a server whose child closed its output: both were
\* written, both were read, and the second one failed as well.
C4_Witness ==
    \E s \in ServerIds :
        /\ s \in closed_seen
        /\ Len(wire[s]) = 4
        /\ reads[s] = 4
        /\ wire[s][3].method = "tools/call"
        /\ ret = Raise("route", "RuntimeError", "upstream_closed")

\* C5: once a request on a channel has failed on a closed output, no later
\* step writes a request to that channel or advances its request id counter.
C5_NoWriteAfterClosed ==
    [][\A s \in closed_seen : wire'[s] = wire[s] /\ next_id'[s] = next_id[s]]_vars

\* The number of entries named n in the catalog of server s.
Occurrences(s, n) == Cardinality({k \in 1..Len(tools[s]) : ToolName(tools[s][k]) = n})

\* The collision diagnostics recorded for name n, and those among them that
\* name s as the server that lost.
CollisionsOf(n) ==
    {i \in 1..Len(diag) : diag[i].kind = "collision" /\ diag[i].name = n}
CollisionsOn(n, s) == {i \in CollisionsOf(n) : diag[i].server = s}

RealNames == {"search", "echo"}

\* C6 as claimed: exactly one collision diagnostic for each name that two or
\* more registered servers advertise, and none for any other name.
C6_OneDiagnosticPerName ==
    \A n \in RealNames :
        Cardinality(CollisionsOf(n)) = IF Cardinality(Advertisers(n)) >= 2 THEN 1 ELSE 0

\* C6 as amended: a collision diagnostic is recorded once for every catalog
\* entry whose name is already in the routing table when the entry is merged:
\* a registered server gets one diagnostic for each of its entries named n,
\* less one if it is the server that registered n first; every diagnostic
\* names that first server as the owner; an unregistered server gets none.
C6_OneDiagnosticPerLosingEntry ==
    /\ \A n \in RealNames, s \in ServerIds :
          Cardinality(CollisionsOn(n, s)) =
              IF s \in Registered
              THEN Occurrences(s, n)
                     - (IF Advertisers(n) # {} /\ s = FirstAdvertiser(n) THEN 1 ELSE 0)
              ELSE 0
    /\ \A i \in 1..Len(diag) :
          diag[i].kind = "collision"
              => /\ diag[i].name \in RealNames
                 /\ Advertisers(diag[i].name) # {}
                 /\ diag[i].owner = FirstAdvertiser(diag[i].name)

\* Three servers advertise search: two diagnostics, one naming each loser.
C6_Witness ==
    /\ Cardinality(Advertisers("search")) = 3
    /\ Cardinality(CollisionsOf("search")) = 2
    /\ Cardinality(CollisionsOn("search", "s2")) = 1
    /\ Cardinality(CollisionsOn("search", "s3")) = 1

\* A tools/list response without an error field that has neither a top-level
\* tools field nor a result.tools field.
NoToolsField(l) ==
    l.json /\ ~l.error /\ ~l.tools.present /\ ~(l.result = "object" /\ l.rtools.present)

\* C7: when the tools/list response read by start() has no error and no
\* tools field in either place (result absent, an object without tools, or
\* null), the catalog is set to empty, a diagnostic is recorded and the
\* server is registered.
C7_MissingToolsDegrades ==
    [][(/\ lpc = "list_recv"
        /\ reads'[Entry] # reads[Entry]
        /\ ~AtEof(Entry)
        /\ NoToolsField(LineRead(Entry)))
          => /\ tools'[Entry] = <<>>
             /\ diag' = Append(diag, NoToolsDiag(Entry))
             /\ Entry \in Registered'
             /\ lpc' # "aborted"
      ]_vars

\* The tool lists a tools/list response carries.
Carried(l) ==
    (IF l.result = "object" /\ l.rtools.present THEN {l.rtools.items} ELSE {})
        \cup (IF l.tools.present THEN {l.tools.items} ELSE {})

\* C8: in every state, get_server_tools of a registered server returns a
\* catalog its tools/list response carried, in result.tools or in the
\* top-level tools (the empty catalog if it carried none), and
\* get_server_tools of any other id raises the unknown-server error.
C8_ServerToolsAreTheListed ==
    \A id \in ServerIds :
        LET got == get_server_tools(id)
        IN  IF id \in Registered
            THEN /\ got.ok
                 /\ IF Carried(listResp[id]) = {} THEN got.tools = <<>>
                    ELSE got.tools \in Carried(listResp[id])
            ELSE ~got.ok /\ got.exc = "ValueError" /\ got.cond = "unknown_server"

\* A server whose response had only the top-level field answered a call and
\* still serves the two tools it listed.
C8_Witness ==
    /\ "s1" \in Registered
    /\ listResp["s1"].result = "absent"
    /\ listResp["s1"].tools.present
    /\ Len(get_server_tools("s1").tools) = 2
    /\ ret = Return("route", "result")
    /\ Len(wire["s1"]) = 3

\* C9: the first request on a channel is initialize with id 1 and the second
\* tools/list with id 2, written after the first response was read and while
\* the load has not failed; a failed initialize aborts the load; after the
\* abort nothing more is written to the failed server and its catalog stays
\* empty; tools/call is written only to registered servers, after both
\* handshake responses were read.
C9_HandshakeOrder ==
    /\ [](\A s \in ServerIds :
            /\ Len(wire[s]) >= 1 => wire[s][1] = Sent(1, "initialize")
            /\ Len(wire[s]) >= 2 => wire[s][2] = Sent(2, "tools/list") /\ reads[s] >= 1
            /\ \A k \in 1..Len(wire[s]) :
                  wire[s][k].method = "tools/call"
                      => k >= 3 /\ s \in Registered /\ reads[s] >= 2
            /\ s \notin Registered => tools[s] = <<>>)
    /\ [][/\ \A s \in ServerIds :
                (reads[s] = 0 /\ reads'[s] = 1 /\ ~Received(s).ok)
                    => lpc' = "aborted" /\ ret'.op = "load" /\ ret'.kind = "raise"
          /\ \A s \in ServerIds :
                (Len(wire[s]) = 1 /\ Len(wire'[s]) = 2)
                    => reads[s] = 1 /\ lpc # "aborted" /\ s \notin closed_seen
          /\ lpc = "aborted"
                => lpc' = "aborted" /\ wire'[Entry] = wire[Entry] /\ tools'[Entry] = <<>>
         ]_vars

\* The second server answered initialize with an error object: the load is
\* aborted with one request written to it.
C9_Witness ==
    /\ lpc = "aborted"
    /\ li = 2
    /\ wire[Entry] = <<Sent(1, "initialize")>>
    /\ reads[Entry] = 1
    /\ ret = Raise("load", "RuntimeError", "upstream_error")

\* C10: a failure while starting an entry leaves load_and_start as an
\* exception and ends the load for good: the failed server is not registered
\* and owns no routing table entry, no later entry is constructed or started,
\* and every registered server, hence every routing table target, has
\* completed its handshake.
C10_FailedStartAbortsLoad ==
    /\ [](/\ lpc = "aborted"
             => /\ Entry \notin Registered
                /\ \A n \in DOMAIN tool_to_server : tool_to_server[n] # Entry
                /\ \A j \in (li + 1)..Len(config) :
                      /\ config[j] \notin objs
                      /\ child[config[j]] = "unborn"
                      /\ wire[config[j]] = <<>>
          /\ \A s \in Registered :
                Len(wire[s]) >= 2 /\ reads[s] >= 2 /\ ParseResponse(listResp[s]).ok
          /\ \A n \in DOMAIN tool_to_server : tool_to_server[n] \in Registered)
    /\ [][/\ (/\ lpc \in {"init_recv", "list_recv"}
              /\ reads'[Entry] # reads[Entry]
              /\ ~Received(Entry).ok)
                => /\ lpc' = "aborted"
                   /\ ret' = Raise("load", Received(Entry).exc, Received(Entry).cond)
                   /\ UNCHANGED <<li, servers, tool_to_server, tools>>
          /\ (/\ lpc \in {"init_send", "list_send"}
              /\ wire'[Entry] # wire[Entry]
              /\ PipeBroken(Entry))
                => /\ lpc' = "aborted"
                   /\ ret' = Raise("load", "BrokenPipeError", "broken_pipe")
          /\ lpc = "aborted" => lpc' = "aborted" /\ UNCHANGED <<li, objs, servers, tool_to_server>>
         ]_vars

\* The second entry failed to start: the first server is registered and
\* serves a call, the third was never constructed.
C10_Witness ==
    /\ lpc = "aborted"
    /\ li = 2
    /\ Registered = {"s1"}
    /\ "s3" \notin objs
    /\ DOMAIN tool_to_server # {}
    /\ ret = Return("route", "result")

\* The threads whose request line has been written to s and whose response
\* has not been read yet.
Outstanding(s) == {c \in Threads : cpc[c] = "call_recv" /\ creq[c].server = s}

\* The ids of the request lines written to s are pairwise different.
DistinctIds(s) ==
    \A i, j \in 1..Len(wire[s]) : i # j => wire[s][i].id # wire[s][j].id

\* C11: for every interleaving of two concurrent route_tool_call invocations
\* routed to the same upstream, the channel has at most one outstanding
\* request at any time (no second request line is written before the response
\* to the first has been read), and the two requests never get the same id.
C11_OneOutstandingRequest ==
    \A s \in ServerIds : Cardinality(Outstanding(s)) <= 1 /\ DistinctIds(s)

\* Thread c returns from readline with a line of the child (not with the end
\* of the stream).
ReadsLine(c) ==
    /\ cpc[c] = "call_recv"
    /\ cpc'[c] = "idle"
    /\ ~AtEof(creq[c].server)

\* The request that the child answered with the line at the head of the
\* stdout of s.
AnsweredByHead(s) == Head(answered[s])

\* C12: concurrent route_tool_call invocations for different tool names do
\* not interfere, whichever servers own the names (the same upstream
\* included): the line a caller reads is the response the child produced for
\* that caller's own request, the tools/call for its tool name.
C12_OwnResponse ==
    [][\A c \in Threads :
          ReadsLine(c) =>
              /\ AnsweredByHead(creq[c].server).method = "tools/call"
              /\ AnsweredByHead(creq[c].server).name = creq[c].name]_vars

\* The base class of each exception class the manager raises.
Base(cls) ==
    CASE cls = "JSONDecodeError" -> "ValueError"
      [] cls = "BrokenPipeError" -> "OSError"
      [] OTHER -> "Exception"

\* isinstance(exc, cls), which is what an except clause for cls matches.
IsInstance(exc, cls) ==
    exc = cls \/ Base(exc) = cls \/ Base(Base(exc)) = cls

\* The class route_tool_call raises for a name with no entry.
UnknownToolClass == "ValueError"

\* The failures of a forwarded call that the upstream causes.
UpstreamFailures == {"upstream_closed", "upstream_error", "malformed"}

\* C13: a routing miss is distinguishable from every upstream-side failure:
\* no failure of a forwarded call (closed output, error object, malformed
\* response line) raises an exception of the kind raised for an unregistered
\* name.
C13_MissDistinguishable ==
    (ret.op = "route" /\ ret.kind = "raise" /\ ret.cond \in UpstreamFailures)
        => ~IsInstance(ret.exc, UnknownToolClass)

\* What call_tool makes of a response line that parses.
CallOutcome(line) ==
    IF line.error THEN Raise("route", "RuntimeError", "upstream_error")
    ELSE IF line.result # "absent" THEN Return("route", "result")
    ELSE Return("route", "response")

\* C14: route_tool_call for a registered name writes exactly one tools/call
\* request, with params.name the name called, to the owning server and to no
\* other; a response without an error field makes it return the result field
\* when present and the whole response otherwise; a response with an error
\* field, also next to a result field, makes it fail with the protocol-error
\* condition; reading the response writes nothing.
C14_ForwardedCall ==
    [][/\ \A c \in Callers, n \in CallNames :
             (route_tool_call(c, n) /\ ~Falsy(Lookup(n))) =>
                 LET s == Lookup(n)
                 IN  /\ wire' = [wire EXCEPT ![s] = Append(@, Sent(next_id[s], "tools/call"))]
                     /\ ~PipeBroken(s) =>
                            stdin' = [stdin EXCEPT ![s] =
                                         Append(@, Request(next_id[s], "tools/call", n))]
       /\ \A c \in Callers :
             (call_recv(c) /\ ~AtEof(creq[c].server)) =>
                 LET line == Head(stdout[creq[c].server])
                 IN  /\ wire' = wire /\ stdin' = stdin
                     /\ line.json => ret' = CallOutcome(line)]_vars

\* A first call has returned the whole response object, and the child has
\* answered a second call with a line that holds an error and a result.
C14_Witness ==
    /\ ret = Return("route", "response")
    /\ \E s \in ServerIds :
          /\ cpc["c1"] = "call_recv" /\ creq["c1"].server = s
          /\ stdout[s] = <<ErrorWithResult>>

\* The status get_servers_status reports for server s.
Reported(report, s) ==
    {report[i].status : i \in {j \in DOMAIN report : report[j].id = s}}

\* C15: a dead upstream stays dead: get_servers_status reports a registered
\* server connected exactly when its process handle exists and its child has
\* not exited, and a server it reports down is reported down after every
\* further step (no call and no query restarts a child).
C15_DeadStaysDead ==
    [][\A s \in Registered :
          /\ Reported(get_servers_status, s) =
                 {IF proc[s] /\ child[s] # "exited" THEN "connected" ELSE "down"}
          /\ Reported(get_servers_status, s) = {"down"} =>
                 Reported(get_servers_status', s) = {"down"}]_vars

\* The child of a registered server has exited, a tools/call to that server
\* has been attempted since, and get_servers_status has just been called.
C15_Witness ==
    /\ ret = Return("get_servers_status", "list")
    /\ \E s \in Registered :
          /\ Reported(get_servers_status, s) = {"down"}
          /\ \E i \in 1..Len(wire[s]) : wire[s][i].method = "tools/call"

\* C16: after a request to a server has failed with the upstream-closed
\* condition, get_servers_status reports that server down in every later
\* state, also when the child process itself has not exited.
C16_ClosedReportedDown ==
    \A s \in closed_seen \cap Registered : Reported(get_servers_status, s) = {"down"}

\* Every entry n -> s of the routing table names a registered server whose
\* catalog holds a tool named n.
WellFormed(reg, cats, table) ==
    \A n \in DOMAIN table :
        /\ \E i \in 1..Len(reg) : reg[i] = table[n]
        /\ \E i \in 1..Len(cats[table[n]]) : ToolName(cats[table[n]][i]) = n

\* The routing table after the merge loop has handled the first k tools of
\* the catalog that the server being loaded has just listed.
TableDuringMerge(k) ==
    MergeTools(SubSeq(ExtractTools(LineRead(Entry)).tools, 1, k), 1, Entry,
               tool_to_server, diag).table

\* C17: routing-table well-formedness, for configurations with unique server
\* ids: in every state during or after load_and_start, a load aborted by a
\* startup failure included, every entry n -> s of the routing table has s
\* registered and a tool named n in the catalog of s (the table is a mapping,
\* so each name has one owner). The states inside the merge loop of a
\* registration are the tables after each of its iterations.
C17_RoutingTableWellFormed ==
    [][/\ WellFormed(servers, tools, tool_to_server)
       /\ WellFormed(servers', tools', tool_to_server')
       /\ (load_list_recv /\ lpc' # "aborted") =>
              \A k \in 0..Len(tools'[Entry]) :
                  WellFormed(servers', tools', TableDuringMerge(k))]_vars

\* A load that registered two servers advertising a common name and was
\* aborted by the startup failure of the third.
C17_Witness ==
    /\ lpc = "aborted"
    /\ Len(servers) = 2
    /\ \E n \in DOMAIN tool_to_server : Cardinality(Advertisers(n)) = 2

\* The names the routing table maps to a server whose child closed its output
\* or exited.
DeadNames == {n \in DOMAIN tool_to_server : tool_to_server[n] \in Faulty}

\* The tools get_all_tools returns.
Listed == {get_all_tools[i] : i \in 1..Len(get_all_tools)}

\* C18: once load_and_start has returned, no step of route_tool_call
\* (successful or failed), get_all_tools, get_servers_status or
\* get_server_tools changes the routing table, the registered servers or a
\* tool catalog; the names the table maps to an upstream that has died stay in
\* the table, the tools of that upstream stay in get_all_tools, and
\* route_tool_call on such a name fails with an upstream failure (the write
\* fails, or the request is written and the read finds the output closed),
\* never with the unknown-tool condition.
C18_OperationsKeepTables ==
    [][/\ lpc = "done" =>
              /\ UNCHANGED <<servers, tool_to_server, tools>>
              /\ get_all_tools' = get_all_tools
              /\ \A s \in Registered \cap Faulty :
                     \A k \in 1..Len(tools[s]) :
                         /\ tools[s][k] \in Listed
                         /\ ~Falsy(ToolName(tools[s][k])) =>
                                ToolName(tools[s][k]) \in DOMAIN tool_to_server
       /\ \A c \in Callers, n \in CallNames :
             (route_tool_call(c, n) /\ n \in DeadNames) =>
                 \/ ret' = Raise("route", "BrokenPipeError", "broken_pipe")
                 \/ /\ cpc'[c] = "call_recv"
                    /\ creq'[c].server = tool_to_server[n]
                    /\ stdout[tool_to_server[n]] = <<>>
       /\ \A c \in Callers :
             (call_recv(c) /\ creq[c].server \in Faulty /\ stdin[creq[c].server] # <<>>) =>
                 ret' = Raise("route", "RuntimeError", "upstream_closed")]_vars

\* After a complete load of two servers, the child of one has exited, a call
\* for a name it owns has failed on the write, and the name is still routed
\* to it.
C18_Witness ==
    /\ lpc = "done"
    /\ ret = Raise("route", "BrokenPipeError", "broken_pipe")
    /\ \E n \in DeadNames : child[tool_to_server[n]] = "exited"

\* The sum of the tools_count fields of the first k entries of a report of
\* get_servers_status.
RECURSIVE CountSum(_, _)
CountSum(report, k) == IF k = 0 THEN 0 ELSE CountSum(report, k - 1) + report[k].tools_count

\* The names of the tools get_all_tools returns.
ListedNames == {ToolName(t) : t \in Listed}

\* C19: get_all_tools is the concatenation of the catalogs of the registered
\* servers in registration order (the k-th tool of the i-th server sits right
\* after all tools of the servers before it, so a name advertised twice is
\* listed twice), its length is the sum of the tool counts get_servers_status
\* reports, every listed tool with a non-empty name has a routing table entry
\* and route_tool_call on it never fails with the unknown-tool condition (it
\* gets as far as writing the request, and what follows the write never
\* raises that condition), and tools with a missing or an empty name are
\* listed without ever getting an entry.
C19_AllToolsListedAndRoutable ==
    [][/\ Len(get_all_tools) = CountSum(get_servers_status, Len(get_servers_status))
       /\ \A i \in 1..Len(servers) :
             \A k \in 1..Len(tools[servers[i]]) :
                 get_all_tools[CountSum(get_servers_status, i - 1) + k] = tools[servers[i]][k]
       /\ \A n \in ListedNames : ~Falsy(n) => n \in DOMAIN tool_to_server
       /\ \A n \in DOMAIN tool_to_server : ~Falsy(n) /\ n \in ListedNames
       /\ \A c \in Callers, n \in CallNames :
             (route_tool_call(c, n) /\ n \in ListedNames /\ ~Falsy(n)) =>
                 Len(wire'[tool_to_server[n]]) = Len(wire[tool_to_server[n]]) + 1
       /\ \A c \in Callers :
             call_recv(c) => ret' # Raise("route", "ValueError", "unknown_tool")]_vars

\* Two servers both list "search", one of them also lists a tool without a
\* usable name, and a call for "search" has been forwarded.
C19_Witness ==
    /\ lpc = "done"
    /\ \E i, j \in 1..Len(get_all_tools) :
          i # j /\ ToolName(get_all_tools[i]) = "search"
                /\ ToolName(get_all_tools[j]) = "search"
    /\ \E n \in ListedNames : Falsy(n)
    /\ cpc["c1"] = "call_recv" /\ creq["c1"].name = "search"
====
